---- MODULE Spec2Model ----
(***************************************************************************)
(* Model of zernipax/backend.py: the import-time backend probe (JAX or     *)
(* NumPy), and the shims the module exports on each backend (put, sign,    *)
(* custom_jvp_with_jit on the JAX branch; put, sign, fori_loop, cond,      *)
(* switch, while_loop, vmap on the NumPy branch).                          *)
(*                                                                         *)
(* A behaviour is one import of the module followed by one call of one     *)
(* exported function.  Python sequences are 0-based; the model keeps       *)
(* 0-based indices in the arguments and adds 1 when it indexes a TLA+      *)
(* sequence.                                                               *)
(***************************************************************************)
EXTENDS Integers, Sequences, FiniteSets, TLC

\* ---------------------------------------------------------------- bounds
MaxGpus == 1       \* number of GPU devices jax.devices("gpu") may report
MaxVal == 2        \* scalar operands and array elements range over 0..MaxVal
MaxBranches == 2   \* longest sequence of branches handed to switch
ArrLen == 2        \* length of the array handed to put
MaxN == 2          \* longest input sequence of vmap / longest array of sign

Vals == 0..MaxVal
Modulus == MaxVal + 1

VARIABLES
    pc,          \* position of the module's top-level code / of a running call
    env,         \* the installation: which module is missing, how many GPUs
    config,      \* zernipax.config: [kind, device]
    requested,   \* the device kind configured before the import (history)
    filters,     \* the active warnings filter ("default" or "ignore")
    savedFilters,\* filters saved by warnings.catch_warnings(), <<>> outside it
    warned,      \* every warnings.warn call: [msg, shown]
    probes,      \* how many times the try block (the JAX probe) was entered
    x64,         \* jax_enable_x64 was switched on
    use_jax,     \* the backend flag: "unset", "True" or "False"
    jnp,         \* what the name jnp is bound to: "unbound", "jax.numpy", "numpy"
    op,          \* the exported function that was called ("none" before)
    args,        \* the arguments of that call
    ret,         \* the value the call returned
    exc,         \* the exception the call raised ("none" when it returned)
    callerArr,   \* put: the caller's array object after the call
    val,         \* while_loop: the loop carry
    bodyArgs     \* while_loop: the values body_fun was applied to

vars == <<pc, env, config, requested, filters, savedFilters, warned, probes, x64, use_jax,
          jnp, op, args, ret, exc, callerArr, val, bodyArgs>>

importVars == <<env, config, requested, filters, savedFilters, warned, probes, x64,
                use_jax, jnp>>
callVars == <<op, args, ret, exc, callerArr, val, bodyArgs>>

\* ------------------------------------------------------------ environment
GpuWarning == "JAX failed to detect GPU"
LoadWarning == "Failed to load JAX"

\* zernipax.config before backend.py is imported: untouched, or after the
\* user called set_device("cpu") / set_device("gpu").
InitialConfigs ==
    { [kind |-> "None", device |-> "None"],
      [kind |-> "cpu", device |-> "CPU"],
      [kind |-> "gpu", device |-> "GPU"] }

\* zernipax.set_device(kind): records the kind and the device it selects.
set_device(kind) ==
    [kind |-> kind, device |-> IF kind = "gpu" THEN "GPU" ELSE "CPU"]

\* warnings.warn(msg) under the active filter: the call is recorded, and the
\* message is shown to the user unless the filter is "ignore".
Warn(log, msg, filter) == Append(log, [msg |-> msg, shown |-> filter # "ignore"])

Init ==
    /\ pc = "start"
    /\ env \in [missing : {"none", "jax", "jaxlib"}, gpus : 0..MaxGpus]
    /\ config \in InitialConfigs
    /\ requested = config.kind
    /\ filters = "default"
    /\ savedFilters = <<>>
    /\ warned = <<>>
    /\ probes = 0
    /\ x64 = FALSE
    /\ use_jax = "unset"
    /\ jnp = "unbound"
    /\ op = "none"
    /\ args = <<>>
    /\ ret = <<>>
    /\ exc = "none"
    /\ callerArr = <<>>
    /\ val = 0
    /\ bodyArgs = {}

\* ------------------------------------------------------- module import
\* lines 11-12: default the device when none was configured.
DefaultDevice ==
    /\ pc = "start"
    /\ config' = IF config.device = "None" THEN set_device("cpu") ELSE config
    /\ pc' = "try"
    /\ UNCHANGED <<env, requested, filters, savedFilters, warned, probes, x64, use_jax, jnp>>
    /\ UNCHANGED callVars

\* lines 13-15: enter the try block and the catch_warnings block, which
\* saves the filters, and silence every warning inside it.
EnterTry ==
    /\ pc = "try"
    /\ probes' = probes + 1
    /\ savedFilters' = <<filters>>
    /\ filters' = "ignore"
    /\ pc' = "import_jax"
    /\ UNCHANGED <<env, requested, config, warned, x64, use_jax, jnp>>
    /\ UNCHANGED callVars

\* lines 16-17: import jax, import jax.numpy as jnp.  ModuleNotFoundError
\* leaves the with block (the filters are restored) for the except clause.
ImportJax ==
    /\ pc = "import_jax"
    /\ IF env.missing = "jax"
       THEN /\ filters' = savedFilters[1]
            /\ savedFilters' = <<>>
            /\ pc' = "except"
            /\ UNCHANGED jnp
       ELSE /\ jnp' = "jax.numpy"
            /\ pc' = "import_jaxlib"
            /\ UNCHANGED <<filters, savedFilters>>
    /\ UNCHANGED <<env, requested, config, warned, probes, x64, use_jax>>
    /\ UNCHANGED callVars

\* lines 18-21: import jaxlib, then enable 64-bit mode.
ImportJaxlib ==
    /\ pc = "import_jaxlib"
    /\ IF env.missing = "jaxlib"
       THEN /\ filters' = savedFilters[1]
            /\ savedFilters' = <<>>
            /\ pc' = "except"
            /\ UNCHANGED x64
       ELSE /\ x64' = TRUE
            /\ pc' = "gpu_check"
            /\ UNCHANGED <<filters, savedFilters>>
    /\ UNCHANGED <<env, requested, config, warned, probes, use_jax, jnp>>
    /\ UNCHANGED callVars

\* lines 22-27: GPU requested but none detected: warn and fall back to CPU.
\* The warn call runs inside the catch_warnings block, under its filter.
GpuCheck ==
    /\ pc = "gpu_check"
    /\ IF config.kind = "gpu" /\ env.gpus = 0
       THEN /\ warned' = Warn(warned, GpuWarning, filters)
            /\ config' = set_device("cpu")
       ELSE UNCHANGED <<warned, config>>
    /\ pc' = "exit_with"
    /\ UNCHANGED <<env, requested, filters, savedFilters, probes, x64, use_jax, jnp>>
    /\ UNCHANGED callVars

\* lines 28-35: leave the catch_warnings block (filters restored), set the flag.
SelectJax ==
    /\ pc = "exit_with"
    /\ filters' = savedFilters[1]
    /\ savedFilters' = <<>>
    /\ use_jax' = "True"
    /\ pc' = "ready"
    /\ UNCHANGED <<env, requested, config, warned, probes, x64, jnp>>
    /\ UNCHANGED callVars

\* The except clause without its set_device call.
HandleModuleNotFound_KeepsDevice ==
    /\ pc = "except"
    /\ jnp' = "numpy"
    /\ use_jax' = "False"
    /\ warned' = Warn(warned, LoadWarning, filters)
    /\ pc' = "ready"
    /\ UNCHANGED <<env, requested, config, filters, savedFilters, probes, x64>>
    /\ UNCHANGED callVars

\* lines 36-43: the except ModuleNotFoundError clause.
HandleModuleNotFound ==
    /\ pc = "except"
    /\ jnp' = "numpy"
    /\ use_jax' = "False"
    /\ config' = set_device("cpu")
    /\ warned' = Warn(warned, LoadWarning, filters)
    /\ pc' = "ready"
    /\ UNCHANGED <<env, requested, filters, savedFilters, probes, x64>>
    /\ UNCHANGED callVars

\* ------------------------------------------------- caller-supplied functions
\* The callables a caller may hand to the shims, over Vals.
UnaryIds == {"id", "inc", "dbl", "zero"}

ApplyFun(f, x) ==
    CASE f = "id" -> x
      [] f = "inc" -> (x + 1) % Modulus
      [] f = "dbl" -> (2 * x) % Modulus
      [] OTHER -> 0

\* body_fun of fori_loop: (i, val) -> val.
BodyIds == {"add", "keep", "count"}

ApplyBody(b, i, v) ==
    CASE b = "add" -> v + i
      [] b = "count" -> v + 1
      [] OTHER -> v

\* cond_fun of while_loop: val -> bool.
CondIds == {"nonzero", "small", "always", "never"}

ApplyCond(c, v) ==
    CASE c = "nonzero" -> v # 0
      [] c = "small" -> v < MaxVal
      [] c = "always" -> TRUE
      [] OTHER -> FALSE

\* A function returning a rank-1 array of two elements (the mapped function of vmap).
ApplyVec(f, x) == <<ApplyFun(f, x), x>>

\* A function with the signature of zernike_radial, (r, l, m, dr), on one element of r.
RadialIds == {"lin", "sq"}

ApplyRadial(f, r, l, m, dr) ==
    IF f = "lin" THEN r * (dr + 1) + l - m ELSE (l + m) * r + dr * dr

Returned(v) == [exc |-> "none", value |-> v]
Raised(e) == [exc |-> e, value |-> <<>>]

Min(a, b) == IF a < b THEN a ELSE b
Max(a, b) == IF a > b THEN a ELSE b

\* Python's seq[i] on a list of length n: a negative i counts from the end.
NormIndex(i, n) == IF i < 0 THEN i + n ELSE i
InBounds(i, n) == NormIndex(i, n) \in 0..(n - 1)

\* ------------------------------------------------------ fallback: cond
\* cond with the two branches exchanged.
cond_swapped(pred, true_fun, false_fun, operand) ==
    IF pred THEN ApplyFun(false_fun, operand) ELSE ApplyFun(true_fun, operand)

cond(pred, true_fun, false_fun, operand) ==
    IF pred THEN ApplyFun(true_fun, operand) ELSE ApplyFun(false_fun, operand)

\* ---------------------------------------------------- fallback: switch
\* np.clip(a, a_min, a_max) = minimum(maximum(a, a_min), a_max).
\* A clip that forgets the lower limit.
clip_upper_only(a, a_min, a_max) == Min(a, a_max)

clip(a, a_min, a_max) == Min(Max(a, a_min), a_max)

switch(index, branches, operand) ==
    LET clamped == clip(index, 0, Len(branches) - 1)
    IN  IF InBounds(clamped, Len(branches))
        THEN Returned(ApplyFun(branches[NormIndex(clamped, Len(branches)) + 1], operand))
        ELSE Raised("IndexError")

\* ------------------------------------------------- fallback: fori_loop
\* fori_loop with an inclusive upper bound.
RECURSIVE fori_loop_inclusive(_, _, _, _)
fori_loop_inclusive(lower, upper, body_fun, init_val) ==
    IF lower > upper
    THEN init_val
    ELSE fori_loop_inclusive(lower + 1, upper, body_fun,
                             ApplyBody(body_fun, lower, init_val))

RECURSIVE fori_loop(_, _, _, _)
fori_loop(lower, upper, body_fun, init_val) ==
    IF lower >= upper
    THEN init_val
    ELSE fori_loop(lower + 1, upper, body_fun, ApplyBody(body_fun, lower, init_val))

\* ------------------------------------------------------ fallback: vmap
\* np.stack(arrays, axis) for rank-1 arrays of equal length: the result has
\* rank 2; an empty list is a ValueError, an axis outside -2..1 an AxisError.
stack(arrays, axis) ==
    IF Len(arrays) = 0 THEN Raised("ValueError")
    ELSE IF ~InBounds(axis, 2) THEN Raised("AxisError")
    ELSE IF NormIndex(axis, 2) = 0 THEN Returned(arrays)
    ELSE Returned([j \in 1..Len(arrays[1]) |->
                      [i \in 1..Len(arrays) |-> arrays[i][j]]])

vmap(fun, out_axes, fun_inputs) ==
    stack([i \in 1..Len(fun_inputs) |-> ApplyVec(fun, fun_inputs[i])], out_axes)

\* -------------------------------------------------------------- put
\* arr[inds] = vals on a NumPy array: every index is checked first, then the
\* values are assigned in order, so the last of two equal indices wins.
RECURSIVE assign(_, _, _, _)
assign(arr, inds, vals, k) ==
    IF k > Len(inds) THEN arr
    ELSE assign([arr EXCEPT ![NormIndex(inds[k], Len(arr)) + 1] = vals[k]],
                inds, vals, k + 1)

setitem(arr, inds, vals) ==
    IF \E k \in 1..Len(inds) : ~InBounds(inds[k], Len(arr))
    THEN Raised("IndexError")
    ELSE Returned(assign(arr, inds, vals, 1))

\* jnp.asarray(arr).at[inds].set(vals): out-of-bounds updates are dropped and
\* the order in which updates to one position are applied is unspecified, so
\* any of them may be the one that stays.
at_set(arr, inds, vals) ==
    LET n == Len(arr)
        ups(p) == {k \in 1..Len(inds) :
                      InBounds(inds[k], n) /\ NormIndex(inds[k], n) + 1 = p}
        all == {arr[p] : p \in 1..n} \cup {vals[k] : k \in 1..Len(vals)}
    IN  {a \in [1..n -> all] :
            \A p \in 1..n :
                IF ups(p) = {} THEN a[p] = arr[p]
                ELSE \E k \in ups(p) : a[p] = vals[k]}

\* put on the JAX branch that drops the result of .at[inds].set(vals).
put_jax_discards_update(arr, is_ndarray, inds, vals) ==
    IF is_ndarray
    THEN {setitem(arr, inds, vals)}
    ELSE {Returned(arr)}

\* put on the JAX branch, lines 64-87: the outcomes the call may have.
put_jax(arr, is_ndarray, inds, vals) ==
    IF is_ndarray
    THEN {setitem(arr, inds, vals)}
    ELSE {Returned(a) : a \in at_set(arr, inds, vals)}

\* put on the NumPy branch, lines 164-185.
put_np(arr, inds, vals) == setitem(arr, inds, vals)

\* ------------------------------------------------------------- sign
\* Arrays are [ndim, data]; np.atleast_1d turns a scalar into a 1-element array.
atleast_1d(x) == [ndim |-> Max(x.ndim, 1), data |-> x.data]

np_sign(v) == IF v > 0 THEN 1 ELSE IF v < 0 THEN -1 ELSE 0

where(c, a, b) == IF c THEN a ELSE b

\* sign without the special case for zero.
sign_plain(x) ==
    LET x1 == atleast_1d(x)
    IN  [ndim |-> x1.ndim,
         data |-> [i \in 1..Len(x1.data) |-> np_sign(x1.data[i])]]

\* sign on the JAX branch, lines 89-105.
sign_jax(x) ==
    LET x1 == atleast_1d(x)
    IN  [ndim |-> x1.ndim,
         data |-> [i \in 1..Len(x1.data) |->
                      where(x1.data[i] = 0, 1, np_sign(x1.data[i]))]]

\* sign on the NumPy branch, lines 187-203.
sign_np(x) ==
    LET x1 == atleast_1d(x)
    IN  [ndim |-> x1.ndim,
         data |-> [i \in 1..Len(x1.data) |->
                      where(x1.data[i] = 0, 1, np_sign(x1.data[i]))]]

\* ------------------------------------------- JAX: custom_jvp_with_jit
\* dummy(r, l, m, dr) = func(r, l, m, dr), elementwise on the 1-D array r.
dummy(func, r, l, m, dr) ==
    [i \in 1..Len(r) |-> ApplyRadial(func, r[i], l, m, dr)]

\* A rule that evaluates the tangent at dr instead of dr + 1.
dummy_jvp_same_dr(func, nondiff_dr, x, xdot) ==
    LET f == dummy(func, x[1], x[2], x[3], nondiff_dr)
    IN  <<f, [i \in 1..Len(x[1]) |-> f[i] * xdot[1][i] + 0 * xdot[2] + 0 * xdot[3]]>>

\* _dummy_jvp(nondiff_dr, x, xdot): returns (primal, tangent).
dummy_jvp(func, nondiff_dr, x, xdot) ==
    LET r == x[1]
        l == x[2]
        m == x[3]
        rdot == xdot[1]
        ldot == xdot[2]
        mdot == xdot[3]
        f == dummy(func, r, l, m, nondiff_dr)
        df == dummy(func, r, l, m, nondiff_dr + 1)
    IN  <<f, [i \in 1..Len(r) |-> df[i] * rdot[i] + 0 * ldot + 0 * mdot]>>

\* ------------------------------------------------------------ calls
\* One call of an exported function after the import, on inputs drawn from
\* small sets.  The NumPy-branch shims exist only when use_jax is False,
\* custom_jvp_with_jit's rule only when it is True; put and sign on both.
SeqsUpTo(S, n) == UNION {[1..k -> S] : k \in 0..n}

OldVals == {0, 1}
NewVals == {1, 2}
PutLens == 0..2
Tangents == {-1, 1}
ZeroedTangents == {0, 3}

Finish(o, a, r) ==
    /\ op' = o
    /\ args' = a
    /\ ret' = r.value
    /\ exc' = r.exc
    /\ pc' = "called"
    /\ UNCHANGED importVars
    /\ UNCHANGED <<val, bodyArgs>>

CallCond ==
    /\ pc = "ready" /\ use_jax = "False"
    /\ \E pred \in BOOLEAN, tf \in UnaryIds, ff \in UnaryIds, operand \in Vals :
          Finish("cond",
                 [pred |-> pred, true_fun |-> tf, false_fun |-> ff, operand |-> operand],
                 Returned(cond(pred, tf, ff, operand)))
    /\ UNCHANGED callerArr

CallSwitch ==
    /\ pc = "ready" /\ use_jax = "False"
    /\ \E index \in -2..(MaxBranches + 1), branches \in SeqsUpTo(UnaryIds, MaxBranches),
          operand \in Vals :
          Finish("switch",
                 [index |-> index, branches |-> branches, operand |-> operand],
                 switch(index, branches, operand))
    /\ UNCHANGED callerArr

CallForiLoop ==
    /\ pc = "ready" /\ use_jax = "False"
    /\ \E lower \in Vals, upper \in Vals, body_fun \in BodyIds, init_val \in Vals :
          Finish("fori_loop",
                 [lower |-> lower, upper |-> upper, body_fun |-> body_fun,
                  init_val |-> init_val],
                 Returned(fori_loop(lower, upper, body_fun, init_val)))
    /\ UNCHANGED callerArr

CallVmap ==
    /\ pc = "ready" /\ use_jax = "False"
    /\ \E fun \in UnaryIds, out_axes \in -3..2, fun_inputs \in SeqsUpTo(Vals, MaxN) :
          Finish("vmap",
                 [fun |-> fun, out_axes |-> out_axes, fun_inputs |-> fun_inputs],
                 vmap(fun, out_axes, fun_inputs))
    /\ UNCHANGED callerArr

\* put, lines 64-87 (JAX branch) and 164-185 (NumPy branch).  is_ndarray says
\* whether arr is a NumPy array; on the NumPy branch it always is.
CallPut ==
    /\ pc = "ready"
    /\ \E arr \in [1..ArrLen -> OldVals], is_ndarray \in BOOLEAN,
          inds \in SeqsUpTo(-(ArrLen + 1)..ArrLen, ArrLen) :
          /\ Len(inds) \in PutLens
          /\ use_jax = "False" => is_ndarray
          /\ \E vals \in [1..Len(inds) -> NewVals] :
                LET a == [arr |-> arr, inds |-> inds, vals |-> vals,
                          is_ndarray |-> is_ndarray]
                    outs == IF use_jax = "True"
                            THEN put_jax(arr, is_ndarray, inds, vals)
                            ELSE {put_np(arr, inds, vals)}
                IN  \E out \in outs :
                       /\ Finish("put", a, out)
                       \* a NumPy array is updated in place, any other is copied
                       /\ callerArr' = IF is_ndarray /\ out.exc = "none"
                                       THEN out.value ELSE arr

CallSign ==
    /\ pc = "ready"
    /\ \E x \in [ndim : {0}, data : [1..1 -> -MaxVal..MaxVal]]
                \cup [ndim : {1}, data : SeqsUpTo(-MaxVal..MaxVal, MaxN)] :
          Finish("sign", [x |-> x],
                 Returned(IF use_jax = "True" THEN sign_jax(x) ELSE sign_np(x)))
    /\ UNCHANGED callerArr

\* jax.jvp of the function custom_jvp_with_jit(func) returns, at the primals
\* (r, l, m), the tangents (rdot, ldot, mdot) and the static argument dr.
CallJvp ==
    /\ pc = "ready" /\ use_jax = "True"
    /\ \E func \in RadialIds, r \in [1..1 -> OldVals] \cup [1..2 -> OldVals],
          l \in OldVals, m \in OldVals, dr \in Vals,
          ldot \in ZeroedTangents, mdot \in ZeroedTangents :
          \E rdot \in [1..Len(r) -> Tangents] :
              Finish("jvp",
                     [func |-> func, r |-> r, l |-> l, m |-> m, dr |-> dr,
                      rdot |-> rdot, ldot |-> ldot, mdot |-> mdot],
                     Returned(dummy_jvp(func, dr, <<r, l, m>>, <<rdot, ldot, mdot>>)))
    /\ UNCHANGED callerArr

\* while_loop, lines 285-307: val = init_val.
StartWhile ==
    /\ pc = "ready" /\ use_jax = "False"
    /\ \E cond_fun \in CondIds, body_fun \in UnaryIds, init_val \in Vals :
          /\ op' = "while_loop"
          /\ args' = [cond_fun |-> cond_fun, body_fun |-> body_fun,
                      init_val |-> init_val]
          /\ val' = init_val
    /\ bodyArgs' = {}
    /\ pc' = "while"
    /\ UNCHANGED importVars
    /\ UNCHANGED <<ret, exc, callerArr>>

\* A do-while: the body runs before the test.
WhileStep_BodyFirst ==
    /\ pc = "while"
    /\ bodyArgs' = bodyArgs \cup {val}
    /\ IF ApplyCond(args.cond_fun, ApplyFun(args.body_fun, val))
       THEN /\ val' = ApplyFun(args.body_fun, val)
            /\ UNCHANGED <<pc, ret>>
       ELSE /\ ret' = ApplyFun(args.body_fun, val)
            /\ val' = ApplyFun(args.body_fun, val)
            /\ pc' = "called"
    /\ UNCHANGED importVars
    /\ UNCHANGED <<op, args, exc, callerArr>>

\* One evaluation of the loop test: run the body, or return val.
WhileStep ==
    /\ pc = "while"
    /\ IF ApplyCond(args.cond_fun, val)
       THEN /\ val' = ApplyFun(args.body_fun, val)
            /\ bodyArgs' = bodyArgs \cup {val}
            /\ UNCHANGED <<pc, ret>>
       ELSE /\ ret' = val
            /\ pc' = "called"
            /\ UNCHANGED <<val, bodyArgs>>
    /\ UNCHANGED importVars
    /\ UNCHANGED <<op, args, exc, callerArr>>

Import ==
    \/ DefaultDevice
    \/ EnterTry
    \/ ImportJax
    \/ ImportJaxlib
    \/ GpuCheck
    \/ SelectJax
    \/ HandleModuleNotFound

Next ==
    \/ Import
    \/ CallCond
    \/ CallSwitch
    \/ CallForiLoop
    \/ CallVmap
    \/ CallPut
    \/ CallSign
    \/ CallJvp
    \/ StartWhile
    \/ WhileStep

Spec == Init /\ [][Next]_vars

\* The interpreter keeps running a loop that has started.
LiveSpec == Init /\ [][Next]_vars /\ WF_vars(WhileStep)

\* ================================================================ claims
Imported == pc \in {"ready", "called", "while"}

\* The index switch is specified to dispatch on.
Clamped(index, n) == IF index < 0 THEN 0 ELSE IF index > n - 1 THEN n - 1 ELSE index

\* C1: on the NumPy backend switch(index, branches, operand) with a non-empty
\* branches returns branches[c](operand), c being index clamped into
\* [0, len(branches) - 1]: an index below 0 acts as 0, one at or above
\* len(branches) as len(branches) - 1.
C1_SwitchClamps ==
    (op = "switch" /\ Len(args.branches) > 0) =>
        /\ exc = "none"
        /\ ret = ApplyFun(args.branches[Clamped(args.index, Len(args.branches)) + 1],
                          args.operand)

C1_Witness ==
    /\ op = "switch" /\ args.index = -1 /\ Len(args.branches) = 2
    /\ ret = ApplyFun(args.branches[1], args.operand)
    /\ ret # ApplyFun(args.branches[2], args.operand)

\* The positions of arr that inds addresses.
Addressed(a) == {NormIndex(a.inds[k], Len(a.arr)) + 1 : k \in 1..Len(a.inds)}

PutOverwrites ==
    /\ exc = "none"
    /\ Len(ret) = Len(args.arr)
    /\ \A k \in 1..Len(args.inds) :
          /\ InBounds(args.inds[k], Len(args.arr))
          /\ ret[NormIndex(args.inds[k], Len(args.arr)) + 1] = args.vals[k]
    /\ \A p \in 1..Len(args.arr) : p \notin Addressed(args) => ret[p] = args.arr[p]

\* The values vals assigns to position p of arr.
Assigned(a, p) ==
    {a.vals[k] : k \in {j \in 1..Len(a.inds) : NormIndex(a.inds[j], Len(a.arr)) + 1 = p}}

AllInBounds(a) == \A k \in 1..Len(a.inds) : InBounds(a.inds[k], Len(a.arr))

\* C2 as stated: for indices that are positions of arr, on every branch of
\* put the returned array holds at every position in inds a value vals gives
\* it and the value of arr everywhere else, and it is the array the NumPy
\* branch returns.
C2_PutSameOnEveryBackend ==
    (op = "put" /\ AllInBounds(args)) =>
        /\ exc = "none"
        /\ \A p \in 1..Len(args.arr) :
              IF p \in Addressed(args)
              THEN ret[p] \in Assigned(args, p)
              ELSE ret[p] = args.arr[p]
        /\ ret = put_np(args.arr, args.inds, args.vals).value

ValidDistinct(a) ==
    /\ AllInBounds(a)
    /\ \A j, k \in 1..Len(a.inds) :
          NormIndex(a.inds[j], Len(a.arr)) = NormIndex(a.inds[k], Len(a.arr)) => j = k

\* C2 amended: when every index of inds lies within arr and no two indices
\* address the same position, the returned array holds vals[k] at position
\* inds[k] for every k and the value of arr everywhere else, on every branch.
C2_PutOverwritesDistinct == (op = "put" /\ ValidDistinct(args)) => PutOverwrites

C2_Witness ==
    /\ op = "put" /\ use_jax = "True" /\ ~args.is_ndarray
    /\ Len(args.inds) = 2 /\ ValidDistinct(args)
    /\ args.inds[1] < 0
    /\ ret # args.arr
    /\ callerArr = args.arr

\* The length of axis a of a rank-2 array, and its i-th slice along a.
AxisLen(m, a) == IF a = 0 THEN Len(m) ELSE Len(m[1])
Slice(m, a, i) == IF a = 0 THEN m[i] ELSE [j \in 1..Len(m) |-> m[j][i]]

\* C3: on the NumPy backend vmap(fun, out_axes)(inputs), for n inputs and
\* every n >= 0, returns a stacked array whose axis out_axes has length n and
\* whose i-th slice along it is fun(inputs[i]).
C3_VmapStacks ==
    (op = "vmap" /\ InBounds(args.out_axes, 2)) =>
        /\ exc = "none"
        /\ LET a == NormIndex(args.out_axes, 2)
               n == Len(args.fun_inputs)
           IN  /\ (n > 0 \/ a = 0) => AxisLen(ret, a) = n
               /\ \A i \in 1..n : Slice(ret, a, i) = ApplyVec(args.fun, args.fun_inputs[i])

\* C4: when GPU execution was requested, JAX imports and reports no GPU
\* device, the import shows the user a warning, selects the CPU and keeps the
\* JAX backend.
C4_GpuWarningReachesUser ==
    (Imported /\ requested = "gpu" /\ env.missing = "none" /\ env.gpus = 0) =>
        /\ \E i \in 1..Len(warned) : warned[i].msg = GpuWarning /\ warned[i].shown
        /\ config.kind = "cpu"
        /\ use_jax = "True"

\* C5: when JAX is not installed the import ends with use_jax False, jnp
\* bound to NumPy, the device kind CPU whatever was configured, exactly one
\* warning shown to the user and the probe entered once.
C5_FallbackWhenJaxMissing ==
    /\ (env.missing # "none" /\ Imported) =>
          /\ use_jax = "False"
          /\ jnp = "numpy"
          /\ config.kind = "cpu"
          /\ warned = <<[msg |-> LoadWarning, shown |-> TRUE]>>
          /\ probes = 1
    /\ probes <= 1

C5_Witness ==
    /\ pc = "ready" /\ env.missing = "jax" /\ requested = "gpu"
    /\ use_jax = "False" /\ config.kind = "cpu"

\* C6: on both backends sign(x) is +1 at every element >= 0, zero included,
\* and -1 at every element < 0.
C6_SignOfZeroIsOne ==
    op = "sign" =>
        /\ Len(ret.data) = Len(args.x.data)
        /\ \A i \in 1..Len(args.x.data) :
              ret.data[i] = IF args.x.data[i] >= 0 THEN 1 ELSE -1

C6_Witness ==
    /\ op = "sign" /\ use_jax = "True"
    /\ \E i, j \in 1..Len(args.x.data) :
          /\ args.x.data[i] = 0 /\ ret.data[i] = 1
          /\ args.x.data[j] < 0 /\ ret.data[j] = -1

\* C7: on the NumPy backend cond(pred, true_fun, false_fun, operand) returns
\* true_fun(operand) when pred holds and false_fun(operand) otherwise.
C7_CondSelectsBranch ==
    op = "cond" =>
        /\ args.pred => ret = ApplyFun(args.true_fun, args.operand)
        /\ ~args.pred => ret = ApplyFun(args.false_fun, args.operand)

C7_Witness ==
    /\ op = "cond" /\ ~args.pred
    /\ ret = ApplyFun(args.false_fun, args.operand)
    /\ ret # ApplyFun(args.true_fun, args.operand)

\* C8: on the NumPy backend fori_loop over an empty range (lower = upper)
\* returns init_val unchanged.
C8_ForiLoopEmptyRange ==
    (op = "fori_loop" /\ args.lower = args.upper) => ret = args.init_val

C8_Witness ==
    /\ op = "fori_loop" /\ args.lower = args.upper /\ args.body_fun = "count"
    /\ ret = args.init_val

\* C9: on the JAX backend the rule registered by custom_jvp_with_jit(func)
\* returns the primal func(r, l, m, dr) and the tangent func(r, l, m, dr + 1)
\* scaled by the tangent of r; the tangents of l and m contribute nothing.
C9_JvpUsesNextDr ==
    op = "jvp" =>
        /\ ret[1] = [i \in 1..Len(args.r) |->
                        ApplyRadial(args.func, args.r[i], args.l, args.m, args.dr)]
        /\ ret[2] = [i \in 1..Len(args.r) |->
                        ApplyRadial(args.func, args.r[i], args.l, args.m, args.dr + 1)
                            * args.rdot[i]]

C9_Witness ==
    /\ op = "jvp" /\ Len(args.r) = 2 /\ args.ldot = 3 /\ args.mdot = 3
    /\ args.rdot = <<1, -1>>
    /\ ret[2][1] # ret[1][1]

\* The k-th value of init_val, body_fun(init_val), body_fun(body_fun(init_val)), ...
RECURSIVE Iterate(_, _, _)
Iterate(body_fun, v, k) == IF k = 0 THEN v ELSE Iterate(body_fun, ApplyFun(body_fun, v), k - 1)

\* The steps at which cond_fun is false.  The values range over Modulus
\* values, so the sequence repeats within Modulus steps.
ExitSteps(a) ==
    {k \in 0..Modulus : ~ApplyCond(a.cond_fun, Iterate(a.body_fun, a.init_val, k))}

FirstExit(a) == CHOOSE k \in ExitSteps(a) : \A j \in ExitSteps(a) : k <= j

WhileSafety ==
    op = "while_loop" =>
        /\ \A v \in bodyArgs : ApplyCond(args.cond_fun, v)
        /\ pc = "called" =>
              /\ ExitSteps(args) # {}
              /\ ret = Iterate(args.body_fun, args.init_val, FirstExit(args))
              /\ bodyArgs = {Iterate(args.body_fun, args.init_val, j) :
                                j \in 0..(FirstExit(args) - 1)}

\* C10: on the NumPy backend while_loop returns the first value of init_val,
\* body_fun(init_val), ... at which cond_fun is false, applies body_fun only
\* to values at which cond_fun is true, and returns exactly when such a value
\* exists.
C10_WhileLoop ==
    /\ []WhileSafety
    /\ (op = "while_loop" /\ ExitSteps(args) # {}) ~> (pc = "called")

C10_Witness ==
    /\ op = "while_loop" /\ pc = "called"
    /\ Cardinality(bodyArgs) = 2
    /\ ret # args.init_val
====
